---- MODULE Spec2Model ----
(***************************************************************************)
(* First order colour fit (colour/characterization/fitting.py).            *)
(*                                                                         *)
(* first_order_colour_fit(m1, m2) regresses each of the first three        *)
(* columns of the reference matrix m1 against the candidate matrix m2 and  *)
(* stacks the first three coefficients of every regression as the rows of  *)
(* a 3x3 matrix.  Matrices are sequences of rows; a row is a sequence of   *)
(* integers.  Coefficients are exact rationals <<numerator, denominator>>  *)
(* in lowest terms with a positive denominator.                            *)
(***************************************************************************)
EXTENDS Integers, Sequences, FiniteSets

VARIABLES m1, m2, pc, x_coefficients, y_coefficients, z_coefficients,
          outcome, attempted

vars == <<m1, m2, pc, x_coefficients, y_coefficients, z_coefficients,
          outcome, attempted>>

(***************************************************************************)
(* Bounds of the model.                                                    *)
(***************************************************************************)
MaxN == 4

MaxScale == 2

(***************************************************************************)
(* Exact rational arithmetic.                                              *)
(***************************************************************************)
Abs(i) == IF i < 0 THEN -i ELSE i

RECURSIVE GCD(_, _)
GCD(a, b) == IF b = 0 THEN a ELSE GCD(b, a % b)

Frac(n, d) ==
    LET g == GCD(Abs(n), Abs(d))
        s == IF d < 0 THEN -1 ELSE 1
    IN  <<s * (n \div g), s * (d \div g)>>

RECURSIVE SumTo(_, _)
SumTo(f, n) == IF n = 0 THEN 0 ELSE f[n] + SumTo(f, n - 1)

(***************************************************************************)
(* Determinant of the k x k integer matrix M, by expansion along row 1,    *)
(* written out for k <= 3.                                                 *)
(***************************************************************************)
Minor(M, k, j) ==
    [r \in 1..(k - 1) |->
        [c \in 1..(k - 1) |-> M[r + 1][IF c < j THEN c ELSE c + 1]]]

RECURSIVE Det(_, _)
Det(M, k) ==
    IF k = 0 THEN 1
    ELSE IF k = 1 THEN M[1][1]
    ELSE IF k = 2 THEN M[1][1] * M[2][2] - M[1][2] * M[2][1]
    ELSE IF k = 3 THEN
          M[1][1] * (M[2][2] * M[3][3] - M[2][3] * M[3][2])
        - M[1][2] * (M[2][1] * M[3][3] - M[2][3] * M[3][1])
        + M[1][3] * (M[2][1] * M[3][2] - M[2][2] * M[3][1])
    ELSE SumTo([j \in 1..k |->
                   IF M[1][j] = 0 THEN 0
                   ELSE (IF j % 2 = 1 THEN 1 ELSE -1) * M[1][j]
                        * Det(Minor(M, k, j), k - 1)], k)

(***************************************************************************)
(* Outcome of a call: a value, or the error it raised.                     *)
(***************************************************************************)
Ok(v) == [ok |-> TRUE, value |-> v, error |-> ""]

Raise(e) == [ok |-> FALSE, value |-> <<>>, error |-> e]

Unset == [ok |-> FALSE, value |-> <<>>, error |-> "unset"]

(***************************************************************************)
(* linear_regression(y, x): ordinary least squares of the dependent        *)
(* vector y on the columns of x plus an intercept.  The coefficients are   *)
(* the slopes, one per column of x, followed by the intercept; they solve  *)
(* the normal equations (A^T A) b = A^T y for the design matrix A = [x 1]. *)
(* The solver is colour.algebra's and is described here as the             *)
(* specification describes it.  On a rank-deficient design it raises its   *)
(* singularity error (sections 4.1 and 7).  For y and x of different       *)
(* lengths least squares is undefined and the solver can only fail; the    *)
(* specification gives that failure no name, it is IncompatibleDimensions  *)
(* here and is not the DimensionMismatch of a shape check.                 *)
(***************************************************************************)
Columns(x) == IF Len(x) = 0 THEN 0 ELSE Len(x[1])

DesignMatrix(x) == [i \in 1..Len(x) |-> Append(x[i], 1)]

GramMatrix(A, p) ==
    [i \in 1..p |-> [j \in 1..p |->
        SumTo([r \in 1..Len(A) |-> A[r][i] * A[r][j]], Len(A))]]

MomentVector(A, y, p) ==
    [i \in 1..p |-> SumTo([r \in 1..Len(A) |-> A[r][i] * y[r]], Len(A))]

ReplaceColumn(G, p, j, b) ==
    [r \in 1..p |-> [c \in 1..p |-> IF c = j THEN b[r] ELSE G[r][c]]]

linear_regression(y, x) ==
    IF Len(y) # Len(x) THEN Raise("IncompatibleDimensions")
    ELSE LET p == Columns(x) + 1
             A == DesignMatrix(x)
             G == GramMatrix(A, p)
             b == MomentVector(A, y, p)
             d == Det(G, p)
         IN  IF d = 0 THEN Raise("SingularRegression")
             ELSE Ok([j \in 1..p |-> Frac(Det(ReplaceColumn(G, p, j, b), p), d)])

(***************************************************************************)
(* first_order_colour_fit, lines 108-114.                                  *)
(*                                                                         *)
(* Column(m, r) is m[:, r] for r >= 0.  RegressChannel(a, b, r) is the     *)
(* right-hand side of lines 108-110: linear_regression(m1[:, r], m2).      *)
(* Slice3(c) is c[:3], which keeps every element of a shorter sequence.    *)
(* Reshape33 is np.array([...]).reshape((3, 3)): the elements in row-major *)
(* order regrouped by three, an error unless there are nine of them.       *)
(***************************************************************************)
\* Faulty variant of Column: m[:, r + 1], the channel index off by one.
ColumnOffByOne(m, r) ==
    IF r + 2 > Columns(m) THEN Raise("IndexError")
    ELSE Ok([i \in 1..Len(m) |-> m[i][r + 2]])

Column(m, r) ==
    IF r + 1 > Columns(m) THEN Raise("IndexError")
    ELSE Ok([i \in 1..Len(m) |-> m[i][r + 1]])

RegressChannel(a, b, r) ==
    LET y == Column(a, r)
    IN  IF ~y.ok THEN y ELSE linear_regression(y.value, b)

\* Faulty variant of Slice3: c[1:4], which drops the first slope and keeps
\* the intercept.
Slice3Shifted(c) == SubSeq(c, 2, IF Len(c) < 4 THEN Len(c) ELSE 4)

Slice3(c) == SubSeq(c, 1, IF Len(c) < 3 THEN Len(c) ELSE 3)

Reshape33(rows) ==
    LET flat == rows[1] \o rows[2] \o rows[3]
    IN  IF Len(flat) # 9 THEN Raise("ValueError")
        ELSE Ok(<<SubSeq(flat, 1, 3), SubSeq(flat, 4, 6), SubSeq(flat, 7, 9)>>)

\* Faulty variant of Assemble: the first two rows exchanged.
AssembleSwapped(x, y, z) == Reshape33(<<Slice3(y), Slice3(x), Slice3(z)>>)

Assemble(x, y, z) == Reshape33(<<Slice3(x), Slice3(y), Slice3(z)>>)

first_order_colour_fit(a, b) ==
    LET x == RegressChannel(a, b, 0)
        y == RegressChannel(a, b, 1)
        z == RegressChannel(a, b, 2)
    IN  IF ~x.ok THEN x
        ELSE IF ~y.ok THEN y
        ELSE IF ~z.ok THEN z
        ELSE Assemble(x.value, y.value, z.value)

(***************************************************************************)
(* Inputs.  A sample matrix is a sequence of 1..MaxN samples of the pool;  *)
(* the candidate is a sample matrix scaled by k, the reference one of the  *)
(* charts derived from the same samples.  A call may also be made with a   *)
(* matrix of the wrong shape: a row too many, columns missing, or a column *)
(* added.                                                                  *)
(***************************************************************************)
SamplePool == {<<0, 0, 0>>, <<1, 0, 0>>, <<0, 1, 0>>, <<0, 0, 1>>}

SampleMatrices == UNION {[1..n -> SamplePool] : n \in 1..MaxN}

Scaled(k, M) == [i \in 1..Len(M) |-> [j \in 1..Len(M[i]) |-> k * M[i][j]]]

ReferenceKinds == {"same", "linear", "chart"}

Reference(kind, M) ==
    CASE kind = "same"   -> M
      [] kind = "linear" ->
            [i \in 1..Len(M) |->
                <<M[i][1] + M[i][2], M[i][3] + 1, 2 * M[i][1]>>]
      [] kind = "chart"  ->
            [i \in 1..Len(M) |->
                <<i % 2, (i * i) % 3, M[i][1] * i + M[i][3]>>]

ExtraRow(M) == Append(M, M[1])

DropColumns(M, c) == [i \in 1..Len(M) |-> SubSeq(M[i], 1, Len(M[i]) - c)]

AddColumn(M) == [i \in 1..Len(M) |-> Append(M[i], i % 3)]

Shapes == {"m1 row", "m1 one column", "m1 two columns", "m1 four columns",
           "m2 row", "m2 one column", "m2 two columns", "m2 four columns"}

Misshape(shape, M, which) ==
    CASE shape = which \o " row"          -> ExtraRow(M)
      [] shape = which \o " one column"   -> DropColumns(M, 2)
      [] shape = which \o " two columns"  -> DropColumns(M, 1)
      [] shape = which \o " four columns" -> AddColumn(M)
      [] OTHER                            -> M

Start ==
    /\ pc = "line108"
    /\ x_coefficients = Unset
    /\ y_coefficients = Unset
    /\ z_coefficients = Unset
    /\ outcome = Unset
    /\ attempted = <<>>

InitFit ==
    /\ \E M \in SampleMatrices, kind \in ReferenceKinds, k \in 1..MaxScale :
          /\ m1 = Reference(kind, M)
          /\ m2 = Scaled(k, M)
    /\ Start

InitMisshapen ==
    /\ \E M \in SampleMatrices, shape \in Shapes :
          /\ m1 = Misshape(shape, Reference("chart", M), "m1")
          /\ m2 = Misshape(shape, M, "m2")
    /\ Start

Init == InitFit \/ InitMisshapen

(***************************************************************************)
(* The call, statement by statement.  An exception raised by a statement   *)
(* ends the call: the statement's target is left unassigned.  attempted    *)
(* records the channels for which linear_regression has been entered.      *)
(***************************************************************************)
Entered(a, r) == IF Column(a, r).ok THEN <<r>> ELSE <<>>

Line108 ==
    /\ pc = "line108"
    /\ LET c == RegressChannel(m1, m2, 0)
       IN  /\ attempted' = attempted \o Entered(m1, 0)
           /\ IF c.ok
              THEN /\ x_coefficients' = c
                   /\ pc' = "line109"
                   /\ outcome' = outcome
              ELSE /\ x_coefficients' = x_coefficients
                   /\ pc' = "raised"
                   /\ outcome' = c
    /\ UNCHANGED <<m1, m2, y_coefficients, z_coefficients>>

Line109 ==
    /\ pc = "line109"
    /\ LET c == RegressChannel(m1, m2, 1)
       IN  /\ attempted' = attempted \o Entered(m1, 1)
           /\ IF c.ok
              THEN /\ y_coefficients' = c
                   /\ pc' = "line110"
                   /\ outcome' = outcome
              ELSE /\ y_coefficients' = y_coefficients
                   /\ pc' = "raised"
                   /\ outcome' = c
    /\ UNCHANGED <<m1, m2, x_coefficients, z_coefficients>>

\* Faulty variant of Line110: a failure of the third regression leaves a row
\* of zeros and the call goes on to return the partly filled matrix.
Line110Partial ==
    /\ pc = "line110"
    /\ LET c == RegressChannel(m1, m2, 2)
       IN  /\ attempted' = attempted \o Entered(m1, 2)
           /\ z_coefficients' = IF c.ok THEN c
                                ELSE Ok([j \in 1..(Columns(m2) + 1) |-> <<0, 1>>])
           /\ pc' = "line112"
           /\ outcome' = outcome
    /\ UNCHANGED <<m1, m2, x_coefficients, y_coefficients>>

Line110 ==
    /\ pc = "line110"
    /\ LET c == RegressChannel(m1, m2, 2)
       IN  /\ attempted' = attempted \o Entered(m1, 2)
           /\ IF c.ok
              THEN /\ z_coefficients' = c
                   /\ pc' = "line112"
                   /\ outcome' = outcome
              ELSE /\ z_coefficients' = z_coefficients
                   /\ pc' = "raised"
                   /\ outcome' = c
    /\ UNCHANGED <<m1, m2, x_coefficients, y_coefficients>>

Line112 ==
    /\ pc = "line112"
    /\ outcome' = Assemble(x_coefficients.value, y_coefficients.value,
                           z_coefficients.value)
    /\ pc' = IF outcome'.ok THEN "returned" ELSE "raised"
    /\ UNCHANGED <<m1, m2, x_coefficients, y_coefficients, z_coefficients,
                   attempted>>

Next == Line108 \/ Line109 \/ Line110 \/ Line112

Spec == Init /\ [][Next]_vars

(***************************************************************************)
(* Vocabulary of the properties.                                           *)
(***************************************************************************)
Done == pc \in {"returned", "raised"}

WellShaped ==
    /\ Len(m1) = Len(m2)
    /\ Columns(m1) = 3
    /\ Columns(m2) = 3

\* The regression of reference column r against the candidate, as the
\* properties speak of it.
Regression(r) == linear_regression([i \in 1..Len(m1) |-> m1[i][r + 1]], m2)

\* Four samples of the 3-column matrix M are independent when the 4 x 4
\* matrix of the samples, each extended by a 1, is regular.
FourIndependent(M) ==
    \E i \in 1..Len(M) : \E j \in (i + 1)..Len(M) :
        \E k \in (j + 1)..Len(M) : \E l \in (k + 1)..Len(M) :
            Det(<<Append(M[i], 1), Append(M[j], 1),
                  Append(M[k], 1), Append(M[l], 1)>>, 4) # 0

Diagonal(q) ==
    [r \in 1..3 |-> [c \in 1..3 |-> IF r = c THEN q ELSE <<0, 1>>]]

\* C1: a returned matrix has three rows, and row r holds exactly the first
\* three coefficients of the regression of reference column r against the
\* candidate, in the order of the reference channels.
C1_RowsAreRegressions ==
    pc = "returned" =>
        /\ Len(outcome.value) = 3
        /\ \A r \in 0..2 :
              LET reg == Regression(r)
              IN  /\ reg.ok
                  /\ outcome.value[r + 1] =
                        <<reg.value[1], reg.value[2], reg.value[3]>>

C1_Witness ==
    /\ pc = "returned"
    /\ WellShaped
    /\ Len(m2) = 4
    /\ outcome.value[1] # outcome.value[2]
    /\ outcome.value[2] # outcome.value[3]
    /\ outcome.value[1] # outcome.value[3]
    /\ outcome.value # Diagonal(<<1, 1>>)

\* C2: every entry of a returned matrix is the slope of a candidate channel:
\* entry (r, c) is coefficient c of regression r and c is the position of a
\* slope, never that of the intercept, which comes after the slopes.
C2_NoInterceptRetained ==
    pc = "returned" =>
        \A r \in 0..2 :
            LET reg == Regression(r)
            IN  \A c \in 1..3 :
                    /\ c <= Columns(m2)
                    /\ outcome.value[r + 1][c] = reg.value[c]

\* C3: a call with different row counts, or with a matrix whose column count
\* is not 3, fails with DimensionMismatch before any regression is entered.
C3_DimensionMismatchFirst ==
    (Done /\ ~WellShaped) =>
        /\ pc = "raised"
        /\ outcome.error = "DimensionMismatch"
        /\ attempted = <<>>

\* C5: when any one of the three per-channel regressions fails, whichever it
\* is, the call ends raised with no matrix, not even a partial one.
ChannelFails(r) == Columns(m1) < r + 1 \/ ~Regression(r).ok

C5_AllOrNothing ==
    (Done /\ \E r \in 0..2 : ChannelFails(r)) =>
        /\ pc = "raised"
        /\ ~outcome.ok
        /\ outcome.value = <<>>

C5_Witness ==
    /\ pc = "raised"
    /\ x_coefficients.ok
    /\ y_coefficients.ok
    /\ ChannelFails(2)
    /\ outcome.value = <<>>

\* C6: the fit of a full-rank sample matrix against itself is the identity.
C6_Identity ==
    (Done /\ m1 = m2 /\ Columns(m2) = 3 /\ Len(m2) >= 4 /\ FourIndependent(m2)) =>
        /\ pc = "returned"
        /\ outcome.value = Diagonal(<<1, 1>>)

C6_Witness ==
    /\ pc = "returned"
    /\ m1 = m2
    /\ Len(m2) = 4
    /\ outcome.value = Diagonal(<<1, 1>>)

\* C7: the fit of a full-rank sample matrix M against k * M, k positive, is
\* 1/k times the identity.
C7_Scale ==
    \A k \in 1..MaxScale :
        (/\ Done
         /\ m2 = Scaled(k, m1)
         /\ Columns(m1) = 3
         /\ Len(m1) >= 4
         /\ FourIndependent(m1)) =>
            /\ pc = "returned"
            /\ outcome.value = Diagonal(Frac(1, k))

C7_Witness ==
    /\ pc = "returned"
    /\ m2 = Scaled(2, m1)
    /\ FourIndependent(m1)
    /\ outcome.value = Diagonal(<<1, 2>>)

====
